---- MODULE Spec2Model ----
(***************************************************************************)
(* A model of async_wake_ios/kdbg.c: the thread-local kernel debugger.     *)
(*                                                                         *)
(* Two user threads take part in a session: the driver, which runs         *)
(* run_syscall_with_breakpoint and whose kernel side is the debuggee, and  *)
(* the monitor, which runs monitor_thread / handle_kernel_bp_hits.  Kernel *)
(* memory is a map from byte addresses to 64-bit words; an arm_context_t   *)
(* is CtxWords consecutive words whose first word is the flavor/count tag. *)
(***************************************************************************)
EXTENDS Integers, Sequences, FiniteSets, TLC

(***************************************************************************)
(* Bounds of the model.                                                    *)
(***************************************************************************)
\* words in the monitor's local window `uint64_t stack[128]` (128 in the source)
ScanWords == 8
\* probes of the trap scan `for (i = 0; i < 1000; i++)` (1000 in the source)
TrapProbes == 2
\* cap of the history counter of kernel-stack-pointer reads
MaxReads == 2
\* how many times the callback may move a saved pc on within one session
MaxAdvance == 2

(***************************************************************************)
(* Program constants.                                                      *)
(***************************************************************************)
ARM_SAVED_STATE64 == 21
ARM_SAVED_STATE64_COUNT == 68
\* the flavor/count word that opens every saved state (count scaled into one word)
TagWord == ARM_SAVED_STATE64 + ARM_SAVED_STATE64_COUNT * 256

KSYMBOL_EL1_HW_BP_INFINITE_LOOP == 1000
KSYMBOL_SLEH_SYNC_EPILOG == 1100
KSYMBOL_WRITE_SYSCALL_ENTRYPOINT == 2000
\* a kernel text address the write path never executes
UnusedKernelPc == 3000

\* the processor_t of cpu 0, and the processor_t of some other core
Processor0 == 1
Processor1 == 2
PROCESSOR_NULL == 0

BCR_E == 1
BCR_BAS_ALL == 480
ARM_DBG_CR_MODE_CONTROL_ANY == 6
\* what the host interface forces into the mode field: user mode only
ARM_DBG_CR_MODE_CONTROL_USER == 4

\* SPSR_A | SPSR_I | SPSR_F | SPSR_EL1_SP0
SPSR_A == 256
SPSR_I == 128
SPSR_F == 64
SPSR_EL1_SP0 == 4

\* byte offset of the load emulated by the callback: LDR X8, [X8,#0x388]
LdrOffset == 904
\* user addresses of the two strings and their lengths
HelloStr == 5000
HelloLen == 11
ReplacerStr == 6000
ReplacerLen == 20

\* do_syscall_with_pstate_d_unmasked: the SVC syndrome and the eret target
ESR_EC_SVC_64 == 21
ESR_EC_SHIFT == 26
KSYMBOL_VALID_LINK_REGISTER == 1200
\* set_MDSCR_EL1_KDE: the gadget and the value it moves into MDSCR_EL1
KSYMBOL_SET_MDSCR_EL1_GADGET == 1300
MDSCR_EL1_KDE == 8192
RopStackMiddle == 3072
\* kernel addresses handed out by early_kalloc and read from the thread
EntryKern == 9000
RopStackBase == 10000
ActContext == 9500
\* struct syscall_args: uint64_t arg[8]
NArgSlots == 8
\* a syscall number other than SYS_write
OtherSyscall == 20

(***************************************************************************)
(* Layout of arm_context_t, one word per modelled field.                   *)
(***************************************************************************)
Layout == <<"tag", "x1", "x8", "sp", "pc", "cpsr">>
CtxWords == Len(Layout)
WordSize == 8
CtxSize == CtxWords * WordSize
\* 0-based word index of a field, and its byte offset (offsetof)
FieldIdx(f) == (CHOOSE i \in 1..CtxWords : Layout[i] = f) - 1
OffsetOf(f) == FieldIdx(f) * WordSize

\* field f of a context held as a sequence of CtxWords words
Get(ctx, f) == ctx[FieldIdx(f) + 1]
Put(ctx, f, v) == [ctx EXCEPT ![FieldIdx(f) + 1] = v]
MkCtx(tag, x1, x8, sp, pc, cpsr) == <<tag, x1, x8, sp, pc, cpsr>>
ZeroCtx == [i \in 1..CtxWords |-> 0]

(***************************************************************************)
(* Kernel address space of the model.                                      *)
(*   the debuggee's kernel stack, StackWords words from StackBase;         *)
(*   the thread_kernel_state above the top of the stack (kstackptr);       *)
(*   the word the breakpointed LDR loads; the uap argument block.          *)
(***************************************************************************)
StackBase == 8
\* word index of the trap snapshot: room below it for the largest gaps
TrapIdx == ScanWords + CtxWords + TrapProbes + 2
StackWords == TrapIdx + CtxWords + ScanWords
StackAddr(i) == StackBase + i * WordSize
TrapAddr == StackAddr(TrapIdx)
\* the stack pointer of the syscall path before the trap snapshot is pushed
TopSp == TrapAddr + CtxSize
KStackPtr == StackAddr(StackWords)
X8Ptr == 4096
Uap == 8192
LoadedWord == 77

StackAddrs == {StackAddr(i) : i \in 0..(StackWords - 1)}
KStateAddrs == {KStackPtr + i * WordSize : i \in 0..(CtxWords - 1)}
KAddrs == StackAddrs \cup KStateAddrs \cup {X8Ptr + LdrOffset} \cup {Uap, Uap + 8, Uap + 16}

(***************************************************************************)
(* The kernel read/write primitives (kmem.h), word granular.               *)
(***************************************************************************)
\* rk64: an address outside the modelled space reads as 0
rk64(m, a) == IF a \in DOMAIN m THEN m[a] ELSE 0
wk64(m, a, v) == [x \in DOMAIN m |-> IF x = a THEN v ELSE m[x]]
\* kmemcpy(local, addr, n words): kernel to user
CopyIn(m, addr, n) == [i \in 1..n |-> rk64(m, addr + (i - 1) * WordSize)]
\* kmemcpy(addr, local, n words): user to kernel
CopyOut(m, addr, buf) ==
  [x \in DOMAIN m |->
     IF \E i \in 1..Len(buf) : x = addr + (i - 1) * WordSize
     THEN buf[(CHOOSE i \in 1..Len(buf) : x = addr + (i - 1) * WordSize)]
     ELSE m[x]]

Threads == {"driver", "monitor"}
Other(t) == IF t = "driver" THEN "monitor" ELSE "driver"

VARIABLES
  pc,              \* position of each thread in its code
  oncpu,           \* is the thread executing on a core now
  chosen,          \* thread->chosen_processor
  bound,           \* thread->bound_processor
  processor,       \* pin_current_thread's local `processor`
  chosenSeen,      \* pin_current_thread's local `chosen`
  pinRet,          \* what pin_current_thread returned
  mdscrKDE,        \* MDSCR_EL1.KDE of cpu 0
  dbg,             \* the thread's DebugData: bvr[0], bcr[0]
  verified,        \* did the read-back of bvr[0] match bp_address
  syscall_complete,\* the global completion flag
  bp_address,      \* argument of run_syscall_with_breakpoint
  callback,        \* argument of run_syscall_with_breakpoint
  gapOuter,        \* words between the saved sp and the outer snapshot
  gapTrap,         \* words between the end of the outer snapshot and the trap snapshot
  kst,             \* kernel side of the driver thread (the debuggee)
  kpc,             \* the debuggee's kernel program counter
  kregs,           \* the debuggee's live x1 and x8
  mem,             \* kernel memory
  req,             \* the request: syscall_number, n_args and the variadic arguments
  sargs,           \* the driver's struct syscall_args
  forged,          \* the arm_context_t values built for the exception returns
  written,         \* what the privileged write operation wrote
  mon,             \* locals of handle_kernel_bp_hits
  hist             \* history: observations the claims are stated on

vars == <<pc, oncpu, chosen, bound, processor, chosenSeen, pinRet, mdscrKDE, dbg,
          verified, syscall_complete, bp_address, callback, gapOuter, gapTrap, req,
          kst, kpc, kregs, mem, sargs, forged, written, mon, hist>>
(***************************************************************************)
(* Bit operations on the 32-bit control words.                             *)
(***************************************************************************)
Bit(x, k) == (x \div (2 ^ k)) % 2
RECURSIVE OrFrom(_, _, _)
OrFrom(x, y, k) ==
  IF k > 9 THEN 0
  ELSE (IF Bit(x, k) = 1 \/ Bit(y, k) = 1 THEN 2 ^ k ELSE 0) + OrFrom(x, y, k + 1)
BitOr(x, y) == OrFrom(x, y, 0)
RECURSIVE AndFrom(_, _, _)
AndFrom(x, y, k) ==
  IF k > 9 THEN 0
  ELSE (IF Bit(x, k) = 1 /\ Bit(y, k) = 1 THEN 2 ^ k ELSE 0) + AndFrom(x, y, k + 1)
BitAnd(x, y) == AndFrom(x, y, 0)
HasBits(x, mask) == BitAnd(x, mask) = mask

(***************************************************************************)
(* Where the debuggee's saved states lie on its kernel stack.              *)
(***************************************************************************)
\* the snapshot pushed by the timer interrupt that pre-empts the spin loop
OuterAddr == TrapAddr - gapTrap * WordSize - CtxSize
\* the stack pointer saved by the context switch, below the scheduler's frames
SpinSp == OuterAddr - gapOuter * WordSize
RunSp == TrapAddr - gapOuter * WordSize

InitMem ==
  [a \in KAddrs |-> IF a = X8Ptr + LdrOffset THEN LoadedWord ELSE 0]

InitMon ==
  [kstackptr |-> 0, sp |-> 0, found_it |-> 0, looper_saved_state |-> 0,
   bp_hitting_state |-> 0, bp_found |-> 0, bp_context |-> ZeroCtx,
   pre_context |-> ZeroCtx]

\* `struct syscall_args sargs = {0}` and `arm_context_t ... = {0}`
\* `beyond` is what the marshalling loop has stored past arg[7], in the words of
\* the caller's frame that follow the struct
ZeroArgs == [number |-> 0, arg |-> [i \in 0..(NArgSlots - 1) |-> 0], beyond |-> <<>>]
ZeroEntry == [x |-> [i \in 0..(NArgSlots - 1) |-> 0], x16 |-> 0, flavor |-> 0, cpsr |-> 0]
ZeroEret == [x0 |-> 0, x1 |-> 0, x8 |-> 0, x21 |-> 0, sp |-> 0, pc |-> 0, cpsr |-> 0]
ZeroForged == [kde |-> ZeroEret, entry |-> ZeroEntry, eret |-> ZeroEret]

\* test_kdbg's call: SYS_write, 3 arguments
TestKdbgRequest == [number |-> 4, n_args |-> 3, args |-> <<1, HelloStr, HelloLen>>]

InitHist == [readsAfterFlag |-> 0, scansAfterFlag |-> 0, advances |-> 0]

\* the state at the entry of run_syscall_with_breakpoint, with the value the
\* global syscall_complete has at that moment
SessionInit(flag) ==
  /\ pc = [t \in Threads |-> IF t = "driver" THEN "pin_bind" ELSE "none"]
  /\ oncpu = [t \in Threads |-> t = "driver"]
  /\ chosen \in [Threads -> {Processor0, Processor1}]
  /\ chosen["monitor"] = Processor1
  /\ bound = [t \in Threads |-> PROCESSOR_NULL]
  /\ processor = [t \in Threads |-> 0]
  /\ chosenSeen = [t \in Threads |-> 0]
  /\ pinRet = [t \in Threads |-> 0]
  /\ mdscrKDE = {}
  /\ dbg = [bvr0 |-> 0, bcr0 |-> 0]
  /\ verified = FALSE
  /\ syscall_complete = flag
  /\ bp_address \in {KSYMBOL_WRITE_SYSCALL_ENTRYPOINT, UnusedKernelPc}
  /\ callback \in {"sys_write_breakpoint_handler", "nop"}
  /\ gapOuter \in 0..(ScanWords - CtxWords)
  /\ gapTrap \in 0..(TrapProbes + 1)
  \* the trap snapshot's tag word lies above the window copied from the saved sp
  /\ gapOuter + CtxWords + gapTrap >= ScanWords
  /\ kst = "user"
  /\ kpc = 0
  /\ kregs = [x1 |-> 0, x8 |-> 0]
  /\ mem = InitMem
  /\ req = TestKdbgRequest
  /\ sargs = ZeroArgs
  /\ forged = ZeroForged
  /\ written = <<>>
  /\ mon = InitMon
  /\ hist = InitHist

\* the first session of the process: `int syscall_complete = 0;`
Init == SessionInit(0)

(***************************************************************************)
(* The scheduler.  A thread takes a step only while it is on a core; cpu 0 *)
(* runs one thread at a time; a thread that is scheduled on goes to its    *)
(* bound processor when it has one.                                        *)
(***************************************************************************)
Alive(t) == pc[t] \notin {"none", "done"}
\* a thread that has returned holds no core
Cpu0Free_held(t) == ~(oncpu[Other(t)] /\ chosen[Other(t)] = Processor0)
Cpu0Free(t) == ~(oncpu[Other(t)] /\ Alive(Other(t)) /\ chosen[Other(t)] = Processor0)

\* what going off the core stores on the debuggee's kernel stack
SaveOnSchedOff(m) ==
  IF kst = "spin"
  THEN wk64(CopyOut(m, OuterAddr,
                    MkCtx(TagWord, 0, 0, OuterAddr + CtxSize,
                          KSYMBOL_EL1_HW_BP_INFINITE_LOOP, SPSR_EL1_SP0)),
            KStackPtr + OffsetOf("sp"), SpinSp)
  ELSE IF kst = "run"
  THEN wk64(CopyOut(m, TrapAddr,
                    MkCtx(TagWord, kregs.x1, kregs.x8, TopSp, kpc, SPSR_EL1_SP0)),
            KStackPtr + OffsetOf("sp"), RunSp)
  ELSE wk64(m, KStackPtr + OffsetOf("sp"), TopSp)

SchedOff(t) ==
  /\ oncpu[t] /\ Alive(t)
  /\ oncpu' = [oncpu EXCEPT ![t] = FALSE]
  /\ mem' = IF t = "driver" THEN SaveOnSchedOff(mem) ELSE mem
  /\ UNCHANGED <<pc, chosen, bound, processor, chosenSeen, pinRet, mdscrKDE, dbg,
                 verified, syscall_complete, bp_address, callback, gapOuter, gapTrap, req,
                 kst, kpc, kregs, sargs, forged, written, mon, hist>>

\* the debuggee comes back on the core in the spin loop: the interrupt return
\* restores the outer snapshot, and the epilogue restores the trap snapshot
LeavesSpin == kst = "spin" /\ rk64(mem, OuterAddr + OffsetOf("pc")) = KSYMBOL_SLEH_SYNC_EPILOG

SchedOn(t) ==
  /\ ~oncpu[t] /\ Alive(t)
  /\ \E p \in (IF bound[t] # PROCESSOR_NULL THEN {bound[t]} ELSE {chosen[t]}) :
       /\ p = Processor0 => Cpu0Free(t)
       /\ chosen' = [chosen EXCEPT ![t] = p]
  /\ oncpu' = [oncpu EXCEPT ![t] = TRUE]
  /\ IF t = "driver" /\ LeavesSpin
     THEN /\ kst' = "run"
          /\ kpc' = rk64(mem, TrapAddr + OffsetOf("pc"))
          /\ kregs' = [x1 |-> rk64(mem, TrapAddr + OffsetOf("x1")),
                       x8 |-> rk64(mem, TrapAddr + OffsetOf("x8"))]
     ELSE UNCHANGED <<kst, kpc, kregs>>
  /\ UNCHANGED <<pc, bound, processor, chosenSeen, pinRet, mdscrKDE, dbg,
                 verified, syscall_complete, bp_address, callback, gapOuter, gapTrap, req,
                 mem, sargs, forged, written, mon, hist>>

(***************************************************************************)
(* pin_current_thread, run by both threads.                                *)
(***************************************************************************)
\* rk64(cpu_data + CPU_PROCESSOR) for cpu_id 0
CpuProcessor(cpu_id) == IF cpu_id = 0 THEN Processor0 ELSE Processor1

\* the value the function returns
PinReturn_chosen(proc, chosenRead) == chosenRead
PinReturn(proc, chosenRead) == proc

\* the processor written to th + THREAD_BOUND_PROCESSOR
PinTarget_none(proc) == PROCESSOR_NULL
PinTarget(proc) == proc

AfterPin_nokde(t) == IF t = "driver" THEN "set_state" ELSE "poll"
AfterPin(t) == IF t = "driver" THEN "kde" ELSE "poll"

PinBind(t) ==
  /\ pc[t] = "pin_bind" /\ oncpu[t]
  /\ processor' = [processor EXCEPT ![t] = CpuProcessor(0)]
  /\ bound' = [bound EXCEPT ![t] = PinTarget(CpuProcessor(0))]
  /\ pc' = [pc EXCEPT ![t] = "pin_yield"]
  /\ UNCHANGED <<oncpu, chosen, chosenSeen, pinRet, mdscrKDE, dbg,
                 verified, syscall_complete, bp_address, callback, gapOuter, gapTrap, req,
                 kst, kpc, kregs, mem, sargs, forged, written, mon, hist>>

\* swtch_pri(0): the thread is taken off the core, or nothing else is runnable
\* and the call returns at once
PinYield(t) ==
  /\ pc[t] = "pin_yield" /\ oncpu[t]
  /\ pc' = [pc EXCEPT ![t] = "pin_confirm"]
  /\ \/ /\ oncpu' = [oncpu EXCEPT ![t] = FALSE]
        /\ mem' = IF t = "driver" THEN SaveOnSchedOff(mem) ELSE mem
     \/ UNCHANGED <<oncpu, mem>>
  /\ UNCHANGED <<chosen, bound, processor, chosenSeen, pinRet, mdscrKDE, dbg,
                 verified, syscall_complete, bp_address, callback, gapOuter, gapTrap, req,
                 kst, kpc, kregs, sargs, forged, written, mon, hist>>

PinConfirm(t) ==
  /\ pc[t] = "pin_confirm" /\ oncpu[t]
  /\ chosenSeen' = [chosenSeen EXCEPT ![t] = chosen[t]]
  /\ pinRet' = [pinRet EXCEPT ![t] = PinReturn(processor[t], chosen[t])]
  /\ pc' = [pc EXCEPT ![t] = AfterPin(t)]
  /\ UNCHANGED <<oncpu, chosen, bound, processor, mdscrKDE, dbg,
                 verified, syscall_complete, bp_address, callback, gapOuter, gapTrap, req,
                 kst, kpc, kregs, mem, sargs, forged, written, mon, hist>>
(***************************************************************************)
(* run_syscall_with_breakpoint, on the driver thread.                      *)
(***************************************************************************)
schedVars == <<oncpu, chosen>>
pinVars == <<bound, processor, chosenSeen, pinRet>>
inputVars == <<bp_address, callback, gapOuter, gapTrap, req>>
kernVars == <<kst, kpc, kregs>>

Goto(t, l) == pc' = [pc EXCEPT ![t] = l]

\* the status word of set_MDSCR_EL1_KDE's exception return
KdeCpsr == BitOr(BitOr(SPSR_A, SPSR_I), BitOr(SPSR_F, SPSR_EL1_SP0))
\* the state set_MDSCR_EL1_KDE hands to the exception return
KdeState ==
  [ZeroEret EXCEPT !.sp = RopStackBase + RopStackMiddle, !.x8 = MDSCR_EL1_KDE,
                   !.pc = KSYMBOL_SET_MDSCR_EL1_GADGET, !.cpsr = KdeCpsr]
\* MSR MDSCR_EL1, X8 on the core the thread runs on: the cores whose KDE bit is set
SetMdscr_toggle(kde, core, x8) ==
  IF core \in kde THEN kde \ {core} ELSE kde \cup {core}
SetMdscr(kde, core, x8) ==
  IF Bit(x8, 13) = 1 THEN kde \cup {core} ELSE kde \ {core}

\* set_MDSCR_EL1_KDE: the gadget sets the bit on the core the thread runs on
SetKDE ==
  /\ pc["driver"] = "kde" /\ oncpu["driver"]
  /\ forged' = [forged EXCEPT !.kde = KdeState]
  /\ mdscrKDE' = SetMdscr(mdscrKDE, chosen["driver"], KdeState.x8)
  /\ Goto("driver", "set_state")
  /\ UNCHANGED <<schedVars, pinVars, inputVars, kernVars, dbg, verified,
                 syscall_complete, mem, sargs, written, mon, hist>>

\* state.bcr[0] = BCR_BAS_ALL | BCR_E
ArmRequest == BitOr(BCR_BAS_ALL, BCR_E)
\* thread_set_state(ARM_DEBUG_STATE64): keeps the address, the byte lanes and the
\* enable bit, and forces the mode field to user mode
HostSetState(addr, bcr) ==
  [bvr0 |-> addr,
   bcr0 |-> BitOr(BitAnd(bcr, BitOr(BCR_BAS_ALL, BCR_E)), ARM_DBG_CR_MODE_CONTROL_USER)]

\* the call succeeds, or it fails and the debug state stays as it was (err is ignored)
ThreadSetState ==
  /\ pc["driver"] = "set_state" /\ oncpu["driver"]
  /\ \E ok \in BOOLEAN :
       dbg' = IF ok THEN HostSetState(bp_address, ArmRequest) ELSE dbg
  /\ Goto("driver", "get_state")
  /\ UNCHANGED <<schedVars, pinVars, inputVars, kernVars, mdscrKDE, verified,
                 syscall_complete, mem, sargs, forged, written, mon, hist>>

\* thread_get_state and `if (state.bvr[0] != bp_address) printf(...)`
AfterVerify_abort(ok) == IF ok THEN "patch_bcr" ELSE "done"
AfterVerify(ok) == "patch_bcr"

ThreadGetState ==
  /\ pc["driver"] = "get_state" /\ oncpu["driver"]
  /\ verified' = (dbg.bvr0 = bp_address)
  /\ Goto("driver", AfterVerify(dbg.bvr0 = bp_address))
  /\ UNCHANGED <<schedVars, pinVars, inputVars, kernVars, mdscrKDE, dbg,
                 syscall_complete, mem, sargs, forged, written, mon, hist>>

\* bcr0 |= ARM_DBG_CR_MODE_CONTROL_ANY
PatchedBcr_assign(bcr0) == ARM_DBG_CR_MODE_CONTROL_ANY
PatchedBcr(bcr0) == BitOr(bcr0, ARM_DBG_CR_MODE_CONTROL_ANY)

PatchBcr ==
  /\ pc["driver"] = "patch_bcr" /\ oncpu["driver"]
  /\ dbg' = [dbg EXCEPT !.bcr0 = PatchedBcr(dbg.bcr0)]
  /\ Goto("driver", "create")
  /\ UNCHANGED <<schedVars, pinVars, inputVars, kernVars, mdscrKDE, verified,
                 syscall_complete, mem, sargs, forged, written, mon, hist>>

\* pthread_create(&th, NULL, monitor_thread, margs)
CreateMonitor ==
  /\ pc["driver"] = "create" /\ oncpu["driver"]
  /\ pc' = [pc EXCEPT !["driver"] = "marshal", !["monitor"] = "pin_bind"]
  /\ UNCHANGED <<schedVars, pinVars, inputVars, kernVars, mdscrKDE, dbg, verified,
                 syscall_complete, mem, sargs, forged, written, mon, hist>>

\* sargs.number = syscall_number; sargs.arg[i] = va_arg(...) for i < n_args
MarshalArgs_shift(r) ==
  [number |-> r.number,
   arg |-> [i \in 0..(NArgSlots - 1) |->
              IF i + 1 < r.n_args THEN r.args[i + 2] ELSE 0],
   beyond |-> <<>>]
MarshalArgs(r) ==
  [number |-> r.number,
   arg |-> [i \in 0..(NArgSlots - 1) |-> IF i < r.n_args THEN r.args[i + 1] ELSE 0],
   beyond |-> <<>>]

\* sargs.arg[i] = ... for i >= 8 is a store past the array: the words land in
\* the frame above the struct, or the build does not perform the stores
Spill(r) ==
  IF r.n_args > NArgSlots
  THEN {SubSeq(r.args, NArgSlots + 1, r.n_args), <<>>}
  ELSE {<<>>}
MarshalOutcomes(r) == {[MarshalArgs(r) EXCEPT !.beyond = b] : b \in Spill(r)}

Marshal ==
  /\ pc["driver"] = "marshal" /\ oncpu["driver"]
  /\ sargs' \in MarshalOutcomes(req)
  /\ Goto("driver", "clear_flag")
  /\ UNCHANGED <<schedVars, pinVars, inputVars, kernVars, mdscrKDE, dbg, verified,
                 syscall_complete, mem, forged, written, mon, hist>>

\* `syscall_complete = 0;` before the call and `syscall_complete = 1;` after it
CompletedFlag == 1
ClearedFlag_set == CompletedFlag
ClearedFlag == 0

ClearFlag ==
  /\ pc["driver"] = "clear_flag" /\ oncpu["driver"]
  /\ syscall_complete' = ClearedFlag
  /\ Goto("driver", "issue")
  /\ UNCHANGED <<schedVars, pinVars, inputVars, kernVars, mdscrKDE, dbg, verified,
                 mem, sargs, forged, written, mon, hist>>

\* the status word of the forged exception return
ForgedCpsr_dmasked == BitOr(BitOr(BitOr(SPSR_A, 2 ^ 9), SPSR_I), BitOr(SPSR_F, SPSR_EL1_SP0))
ForgedCpsr == BitOr(BitOr(SPSR_A, SPSR_I), BitOr(SPSR_F, SPSR_EL1_SP0))

\* fake_syscall_args: the state the target syscall sees
EntryState(args) ==
  [ZeroEntry EXCEPT !.x16 = args.number,
                    !.x = [i \in 0..(NArgSlots - 1) |-> args.arg[i]],
                    !.flavor = ARM_SAVED_STATE64]
\* eret_return_state: the state restored by the forged exception return
EretX1 == ESR_EC_SVC_64 * (2 ^ ESR_EC_SHIFT)
EretState(entry_kern, act_context, stack_top) ==
  [ZeroEret EXCEPT !.x0 = entry_kern, !.x1 = EretX1,
                   !.x21 = act_context, !.sp = stack_top,
                   !.pc = KSYMBOL_VALID_LINK_REGISTER, !.cpsr = ForgedCpsr]
\* where the kernel's dispatcher enters for the number in x16
SyscallEntry(number) ==
  IF number = 4 THEN KSYMBOL_WRITE_SYSCALL_ENTRYPOINT ELSE UnusedKernelPc

\* do_syscall_with_pstate_d_unmasked: the exception return enters the syscall
\* path with PSTATE.D clear; the dispatcher copies the arguments into uap
IssueSyscall ==
  /\ pc["driver"] = "issue" /\ oncpu["driver"]
  /\ LET entry == EntryState(sargs)
     IN /\ forged' = [forged EXCEPT !.entry = entry,
                                    !.eret = EretState(EntryKern, ActContext, KStackPtr)]
        /\ kpc' = SyscallEntry(entry.x16)
        /\ mem' = wk64(wk64(wk64(mem, Uap, entry.x[0]), Uap + 8, entry.x[1]),
                       Uap + 16, entry.x[2])
  /\ kst' = "run"
  /\ kregs' = [x1 |-> Uap, x8 |-> X8Ptr]
  /\ Goto("driver", "kernel")
  /\ UNCHANGED <<schedVars, pinVars, inputVars, mdscrKDE, dbg, verified,
                 syscall_complete, sargs, written, mon, hist>>

\* does the hardware breakpoint fire when the debuggee is about to execute a
BpFires(a) ==
  /\ chosen["driver"] \in mdscrKDE
  /\ dbg.bvr0 = a
  /\ HasBits(dbg.bcr0, BCR_E)
  /\ HasBits(dbg.bcr0, ARM_DBG_CR_MODE_CONTROL_ANY)
  /\ Bit(ForgedCpsr, 9) = 0

\* the debuggee executes in the kernel: it traps and enters the spin loop, or
\* executes the LDR at the entry point, or finishes the write and returns
KernelStep ==
  /\ pc["driver"] = "kernel" /\ oncpu["driver"] /\ kst = "run"
  /\ IF BpFires(kpc)
     THEN /\ mem' = CopyOut(mem, TrapAddr,
                            MkCtx(TagWord, kregs.x1, kregs.x8, TopSp, kpc, ForgedCpsr))
          /\ kst' = "spin"
          /\ UNCHANGED <<pc, kpc, kregs, written>>
     ELSE IF kpc = KSYMBOL_WRITE_SYSCALL_ENTRYPOINT
     THEN /\ kregs' = [kregs EXCEPT !.x8 = rk64(mem, kregs.x8 + LdrOffset)]
          /\ kpc' = kpc + 4
          /\ UNCHANGED <<pc, kst, mem, written>>
     ELSE /\ written' = <<rk64(mem, kregs.x1 + 8), rk64(mem, kregs.x1 + 16)>>
          /\ kst' = "user"
          /\ Goto("driver", "set_flag")
          /\ UNCHANGED <<kpc, kregs, mem>>
  /\ UNCHANGED <<schedVars, pinVars, inputVars, mdscrKDE, dbg, verified,
                 syscall_complete, sargs, forged, mon, hist>>

SetFlag ==
  /\ pc["driver"] = "set_flag" /\ oncpu["driver"]
  /\ syscall_complete' = CompletedFlag
  /\ Goto("driver", "join")
  /\ UNCHANGED <<schedVars, pinVars, inputVars, kernVars, mdscrKDE, dbg, verified,
                 mem, sargs, forged, written, mon, hist>>

\* pthread_join(th, NULL)
Join ==
  /\ pc["driver"] = "join" /\ oncpu["driver"] /\ pc["monitor"] = "done"
  /\ Goto("driver", "done")
  /\ UNCHANGED <<schedVars, pinVars, inputVars, kernVars, mdscrKDE, dbg, verified,
                 syscall_complete, mem, sargs, forged, written, mon, hist>>
(***************************************************************************)
(* handle_kernel_bp_hits, on the monitor thread.                           *)
(***************************************************************************)
\* `if (syscall_complete) return;`
FlagCheck_never(flag) == FALSE
FlagCheck(flag) == flag # 0

Bump(n, flag) == IF flag # 0 /\ n < MaxReads THEN n + 1 ELSE n

Poll ==
  /\ pc["monitor"] = "poll" /\ oncpu["monitor"]
  /\ Goto("monitor", IF FlagCheck(syscall_complete) THEN "done" ELSE "read_ksp")
  /\ UNCHANGED <<schedVars, pinVars, inputVars, kernVars, mdscrKDE, dbg, verified,
                 syscall_complete, mem, sargs, forged, written, mon, hist>>

\* kstackptr = rk64(thread_t_addr + THREAD_KSTACKPTR)
ReadKsp ==
  /\ pc["monitor"] = "read_ksp" /\ oncpu["monitor"]
  /\ mon' = [mon EXCEPT !.kstackptr = KStackPtr]
  /\ hist' = [hist EXCEPT !.readsAfterFlag = Bump(@, syscall_complete)]
  /\ Goto("monitor", "copy_sched")
  /\ UNCHANGED <<schedVars, pinVars, inputVars, kernVars, mdscrKDE, dbg, verified,
                 syscall_complete, mem, sargs, forged, written>>

\* is the word a flavor/count tag
IsTag(w) == w = TagWord

\* kmemcpy(&saved_ksched_state, kstackptr, sizeof); `if (sp == 0) continue;`
SkipScan_decode(saved) == ~IsTag(Get(saved, "tag")) \/ Get(saved, "sp") = 0
SkipScan(saved) == Get(saved, "sp") = 0

CopySched ==
  /\ pc["monitor"] = "copy_sched" /\ oncpu["monitor"]
  /\ LET saved == CopyIn(mem, mon.kstackptr, CtxWords)
         sp == Get(saved, "sp")
     IN /\ mon' = [mon EXCEPT !.sp = sp, !.found_it = 0, !.looper_saved_state = 0]
        /\ Goto("monitor", IF SkipScan(saved) THEN "poll" ELSE "copy_stack")
  /\ UNCHANGED <<schedVars, pinVars, inputVars, kernVars, mdscrKDE, dbg, verified,
                 syscall_complete, mem, sargs, forged, written, hist>>

NotFound == -1
\* does the saved pc name the spin loop
IsLooperPc_any(v, looper_pc) == TRUE
IsLooperPc(v, looper_pc) == v = looper_pc

\* the outer scan over the local window `stack` (0-based, ScanWords words):
\* the set of indexes the loop can stop at.  saved_state->pc of a tag word near
\* the end of the window is read beyond the array, where any value may lie.
RECURSIVE ScanOuterFrom(_, _, _)
ScanOuterFrom(win, i, looper_pc) ==
  IF i >= ScanWords THEN {NotFound}
  ELSE IF ~IsTag(win[i + 1]) THEN ScanOuterFrom(win, i + 1, looper_pc)
  ELSE IF i + FieldIdx("pc") < ScanWords
       THEN IF IsLooperPc(win[i + FieldIdx("pc") + 1], looper_pc)
            THEN {i}
            ELSE ScanOuterFrom(win, i + 1, looper_pc)
       ELSE {i} \cup ScanOuterFrom(win, i + 1, looper_pc)
ScanOuter(win, looper_pc) == ScanOuterFrom(win, 0, looper_pc)

\* where the monitor goes when the scan finds nothing: `sleep(1); return;`
AfterNotFound == "done"

\* kmemcpy(&stack[0], sp, sizeof(stack)) and the scan of the window
CopyStack ==
  /\ pc["monitor"] = "copy_stack" /\ oncpu["monitor"]
  /\ LET win == CopyIn(mem, mon.sp, ScanWords)
     IN \E i \in ScanOuter(win, KSYMBOL_EL1_HW_BP_INFINITE_LOOP) :
          IF i = NotFound
          THEN /\ mon' = [mon EXCEPT !.found_it = 0]
               /\ Goto("monitor", AfterNotFound)
          ELSE /\ mon' = [mon EXCEPT !.found_it = 1,
                                     !.looper_saved_state = mon.sp + i * WordSize]
               /\ Goto("monitor", "locate")
  /\ hist' = [hist EXCEPT !.scansAfterFlag = Bump(@, syscall_complete)]
  /\ UNCHANGED <<schedVars, pinVars, inputVars, kernVars, mdscrKDE, dbg, verified,
                 syscall_complete, mem, sargs, forged, written>>

\* the trap scan: <<bp_hitting_state, found_it>> after at most `left` probes
RECURSIVE LocateFrom(_, _, _)
LocateFrom(m, addr, left) ==
  IF left = 0 THEN <<addr, 0>>
  ELSE IF ~IsTag(rk64(m, addr)) THEN LocateFrom(m, addr + 8, left - 1)
  ELSE <<addr, 1>>
\* bp_hitting_state starts at looper_saved_state + sizeof(arm_context_t)
TrapScanStart_inside(looper) == looper
TrapScanStart(looper) == looper + CtxSize
LocateTrap(m, looper) == LocateFrom(m, TrapScanStart(looper), TrapProbes)

\* `if (bp_context.ss.ss_64.pc != breakpoint) printf(...)` and
\* `if (!found_it) printf(...)`: the code goes on either way
AfterLocate_strict(found, ctx_pc, breakpoint) ==
  IF found = 1 /\ ctx_pc # breakpoint THEN "done" ELSE "copy_ctx"
AfterLocate(found, ctx_pc, breakpoint) == "copy_ctx"

Locate ==
  /\ pc["monitor"] = "locate" /\ oncpu["monitor"]
  /\ LET r == LocateTrap(mem, mon.looper_saved_state)
     IN /\ mon' = [mon EXCEPT !.bp_hitting_state = r[1], !.bp_found = r[2]]
        /\ Goto("monitor",
                AfterLocate(r[2], rk64(mem, r[1] + OffsetOf("pc")), bp_address))
  /\ UNCHANGED <<schedVars, pinVars, inputVars, kernVars, mdscrKDE, dbg, verified,
                 syscall_complete, mem, sargs, forged, written, hist>>

\* kmemcpy(&bp_context, bp_hitting_state, sizeof(arm_context_t))
CopyCtx ==
  /\ pc["monitor"] = "copy_ctx" /\ oncpu["monitor"]
  /\ LET c == CopyIn(mem, mon.bp_hitting_state, CtxWords)
     IN mon' = [mon EXCEPT !.bp_context = c, !.pre_context = c]
  /\ Goto("monitor", "callback")
  /\ UNCHANGED <<schedVars, pinVars, inputVars, kernVars, mdscrKDE, dbg, verified,
                 syscall_complete, mem, sargs, forged, written, hist>>

\* sys_write_breakpoint_handler on the local copy
SysWriteCtx(ctx, m) ==
  Put(Put(ctx, "pc", Get(ctx, "pc") + 4), "x8", rk64(m, Get(ctx, "x8") + LdrOffset))
\* and its two writes through uap
SysWriteMem(ctx, m) ==
  wk64(wk64(m, Get(ctx, "x1") + 8, ReplacerStr), Get(ctx, "x1") + 16, ReplacerLen)

CallbackCtx(cb, ctx, m) ==
  IF cb = "sys_write_breakpoint_handler" THEN SysWriteCtx(ctx, m) ELSE ctx
CallbackMem(cb, ctx, m) ==
  IF cb = "sys_write_breakpoint_handler" THEN SysWriteMem(ctx, m) ELSE m

\* what follows the callback: the write-back, then the overwrite of the outer pc
AfterCallback_patch == "patch"
AfterCallback == "writeback"

\* callback(&bp_context)
Callback ==
  /\ pc["monitor"] = "callback" /\ oncpu["monitor"]
  /\ callback = "nop" \/ hist.advances < MaxAdvance
  /\ mon' = [mon EXCEPT !.bp_context = CallbackCtx(callback, mon.bp_context, mem)]
  /\ mem' = CallbackMem(callback, mon.bp_context, mem)
  /\ hist' = [hist EXCEPT !.advances = IF callback = "nop" THEN @ ELSE @ + 1]
  /\ Goto("monitor", AfterCallback)
  /\ UNCHANGED <<schedVars, pinVars, inputVars, kernVars, mdscrKDE, dbg, verified,
                 syscall_complete, sargs, forged, written>>

\* kmemcpy(bp_hitting_state, &bp_context, sizeof(arm_context_t))
Encode_wide(m, addr, ctx) == CopyOut(m, addr, Append(ctx, 0))
Encode_short(m, addr, ctx) == CopyOut(m, addr, SubSeq(ctx, 1, CtxWords - 2))
Encode(m, addr, ctx) == CopyOut(m, addr, ctx)
Decode(m, addr) == CopyIn(m, addr, CtxWords)

Writeback ==
  /\ pc["monitor"] = "writeback" /\ oncpu["monitor"]
  /\ mem' = Encode(mem, mon.bp_hitting_state, mon.bp_context)
  /\ Goto("monitor", "patch")
  /\ UNCHANGED <<schedVars, pinVars, inputVars, kernVars, mdscrKDE, dbg, verified,
                 syscall_complete, sargs, forged, written, mon, hist>>

\* wk64(looper_saved_state + offsetof(arm_context_t, ss.ss_64.pc), epilogue)
PatchAddr_tag(looper) == looper
PatchAddr(looper) == looper + OffsetOf("pc")
PatchValue == KSYMBOL_SLEH_SYNC_EPILOG

PatchOuter ==
  /\ pc["monitor"] = "patch" /\ oncpu["monitor"]
  /\ mem' = wk64(mem, PatchAddr(mon.looper_saved_state), PatchValue)
  /\ Goto("monitor", "switch")
  /\ UNCHANGED <<schedVars, pinVars, inputVars, kernVars, mdscrKDE, dbg, verified,
                 syscall_complete, sargs, forged, written, mon, hist>>

\* thread_switch(target_thread_port, 0, 0); swtch_pri(0): the monitor leaves the
\* core, or stays on it when the scheduler has nothing else to run there
Switch ==
  /\ pc["monitor"] = "switch" /\ oncpu["monitor"]
  /\ Goto("monitor", "poll")
  /\ \/ oncpu' = [oncpu EXCEPT !["monitor"] = FALSE]
     \/ UNCHANGED oncpu
  /\ UNCHANGED <<chosen, pinVars, inputVars, kernVars, mdscrKDE, dbg, verified,
                 syscall_complete, mem, sargs, forged, written, mon, hist>>

(***************************************************************************)
(* The session.                                                            *)
(***************************************************************************)
Next ==
  \/ \E t \in Threads : SchedOff(t)
  \/ \E t \in Threads : SchedOn(t)
  \/ \E t \in Threads : PinBind(t)
  \/ \E t \in Threads : PinYield(t)
  \/ \E t \in Threads : PinConfirm(t)
  \/ SetKDE
  \/ ThreadSetState
  \/ ThreadGetState
  \/ PatchBcr
  \/ CreateMonitor
  \/ Marshal
  \/ ClearFlag
  \/ IssueSyscall
  \/ KernelStep
  \/ SetFlag
  \/ Join
  \/ Poll
  \/ ReadKsp
  \/ CopySched
  \/ CopyStack
  \/ Locate
  \/ CopyCtx
  \/ Callback
  \/ Writeback
  \/ PatchOuter
  \/ Switch

Spec == Init /\ [][Next]_vars

(***************************************************************************)
(* The session under fair scheduling: a thread that can be put on a core   *)
(* again and again is put on one, the monitor thread takes its next step   *)
(* when it is on a core again and again, the driver blocked in             *)
(* pthread_join gives up its core, and pthread_join returns once the       *)
(* monitor thread has returned.                                            *)
(***************************************************************************)
MonitorStep ==
  \/ PinBind("monitor") \/ PinYield("monitor") \/ PinConfirm("monitor")
  \/ Poll \/ ReadKsp \/ CopySched \/ CopyStack \/ Locate \/ CopyCtx
  \/ Callback \/ Writeback \/ PatchOuter \/ Switch

JoinBlocks == pc["driver"] = "join" /\ SchedOff("driver")

Fairness ==
  /\ \A t \in Threads : SF_vars(SchedOn(t))
  /\ SF_vars(MonitorStep)
  /\ WF_vars(JoinBlocks)
  /\ SF_vars(Join)

\* one position of the outer snapshot; the trap snapshot within the probes or
\* beyond them
FairInit == Init /\ gapOuter = 0

FairSpec == FairInit /\ [][Next]_vars /\ Fairness

(***************************************************************************)
(* A later session of the same process: the earlier call left the global   *)
(* syscall_complete at 1.                                                  *)
(***************************************************************************)
RepeatInit == SessionInit(CompletedFlag) /\ gapOuter = 0

RepeatSpec == RepeatInit /\ [][Next]_vars
(***************************************************************************)
(* The two scans on their own: the debuggee has trapped and has been       *)
(* pre-empted in the spin loop, the monitor has read the saved sp and is   *)
(* about to copy the window.  The outer snapshot lies anywhere from the    *)
(* saved sp to beyond the window, the trap snapshot anywhere from the end  *)
(* of the outer snapshot to beyond the probes, and a tag word that opens   *)
(* no snapshot may lie below the outer snapshot.                           *)
(***************************************************************************)
TrappedMemAt(trap_pc) ==
  CopyOut(wk64(wk64(wk64(InitMem, Uap, 1), Uap + 8, HelloStr), Uap + 16, HelloLen),
          TrapAddr,
          MkCtx(TagWord, Uap, X8Ptr, TopSp, trap_pc, ForgedCpsr))
TrappedMem == TrappedMemAt(KSYMBOL_WRITE_SYSCALL_ENTRYPOINT)

ScanInit ==
  /\ pc = [t \in Threads |-> IF t = "driver" THEN "kernel" ELSE "copy_stack"]
  /\ oncpu = [t \in Threads |-> t = "monitor"]
  /\ chosen = [t \in Threads |-> Processor0]
  /\ bound = [t \in Threads |-> Processor0]
  /\ processor = [t \in Threads |-> Processor0]
  /\ chosenSeen = [t \in Threads |-> Processor0]
  /\ pinRet = [t \in Threads |-> Processor0]
  /\ mdscrKDE = {Processor0}
  /\ bp_address = KSYMBOL_WRITE_SYSCALL_ENTRYPOINT
  /\ dbg = [bvr0 |-> bp_address, bcr0 |-> PatchedBcr(HostSetState(bp_address, ArmRequest).bcr0)]
  /\ verified = TRUE
  /\ syscall_complete = 0
  /\ callback = "sys_write_breakpoint_handler"
  /\ gapOuter \in 0..(ScanWords + 1)
  /\ gapTrap \in 0..(TrapProbes + 1)
  /\ kst = "spin"
  /\ kpc = KSYMBOL_WRITE_SYSCALL_ENTRYPOINT
  /\ kregs = [x1 |-> Uap, x8 |-> X8Ptr]
  /\ \E d \in -1..(gapOuter - 1) :
       mem = IF d < 0 THEN SaveOnSchedOff(TrappedMem)
             ELSE wk64(SaveOnSchedOff(TrappedMem), SpinSp + d * WordSize, TagWord)
  /\ req = TestKdbgRequest
  /\ sargs = MarshalArgs(req)
  /\ forged = [kde |-> KdeState, entry |-> EntryState(sargs),
               eret |-> EretState(EntryKern, ActContext, KStackPtr)]
  /\ written = <<>>
  /\ mon = [InitMon EXCEPT !.kstackptr = KStackPtr, !.sp = SpinSp]
  /\ hist = InitHist

ScanNext == CopyStack \/ Locate

ScanSpec == ScanInit /\ [][ScanNext]_vars

(***************************************************************************)
(* The driver's straight line from set_MDSCR_EL1_KDE to the forged         *)
(* exception return, for every request: the thread is pinned and runs on   *)
(* either core, the KDE bit of each core is set or clear from before.      *)
(***************************************************************************)
\* the variadic arguments a caller passes
ArgPool == <<1, HelloStr, HelloLen, 3, 4, 5, 6, 7>>
Requests ==
  {[number |-> n, n_args |-> k, args |-> SubSeq(ArgPool, 1, k)] :
     n \in {4, OtherSyscall}, k \in 0..NArgSlots}

DriverInit ==
  /\ pc = [t \in Threads |-> IF t = "driver" THEN "kde" ELSE "none"]
  /\ oncpu = [t \in Threads |-> t = "driver"]
  /\ chosen \in [Threads -> {Processor0, Processor1}]
  /\ chosen["monitor"] = Processor1
  /\ bound = [t \in Threads |-> IF t = "driver" THEN Processor0 ELSE PROCESSOR_NULL]
  /\ processor = [t \in Threads |-> IF t = "driver" THEN Processor0 ELSE 0]
  /\ chosenSeen = [t \in Threads |-> IF t = "driver" THEN chosen[t] ELSE 0]
  /\ pinRet = [t \in Threads |-> IF t = "driver" THEN Processor0 ELSE 0]
  /\ mdscrKDE \in SUBSET {Processor0, Processor1}
  /\ dbg = [bvr0 |-> 0, bcr0 |-> 0]
  /\ verified = FALSE
  /\ syscall_complete \in {0, 1}
  /\ bp_address \in {KSYMBOL_WRITE_SYSCALL_ENTRYPOINT, UnusedKernelPc}
  /\ callback = "sys_write_breakpoint_handler"
  /\ gapOuter = 0
  /\ gapTrap = 0
  /\ kst = "user"
  /\ kpc = 0
  /\ kregs = [x1 |-> 0, x8 |-> 0]
  /\ mem = InitMem
  /\ req \in Requests
  /\ sargs = ZeroArgs
  /\ forged = ZeroForged
  /\ written = <<>>
  /\ mon = InitMon
  /\ hist = InitHist

DriverNext ==
  \/ SetKDE
  \/ ThreadSetState
  \/ ThreadGetState
  \/ PatchBcr
  \/ CreateMonitor
  \/ Marshal
  \/ ClearFlag
  \/ IssueSyscall

DriverSpec == DriverInit /\ [][DriverNext]_vars

(***************************************************************************)
(* The marshalling and the call, as run_syscall_with_breakpoint and         *)
(* raw_syscall both do them, for requests with up to MaxSpill arguments     *)
(* more than the request has slots.                                         *)
(***************************************************************************)
MaxSpill == 2

LongArgs(k) == [i \in 1..k |-> IF i <= Len(ArgPool) THEN ArgPool[i] ELSE 100 + i]
LongRequests ==
  {[number |-> n, n_args |-> k, args |-> LongArgs(k)] :
     n \in {4, OtherSyscall}, k \in 0..(NArgSlots + MaxSpill)}

MarshalInit ==
  /\ pc = [t \in Threads |-> IF t = "driver" THEN "marshal" ELSE "none"]
  /\ oncpu = [t \in Threads |-> t = "driver"]
  /\ chosen \in [Threads -> {Processor0, Processor1}]
  /\ chosen["monitor"] = Processor1
  /\ bound = [t \in Threads |-> IF t = "driver" THEN Processor0 ELSE PROCESSOR_NULL]
  /\ processor = [t \in Threads |-> IF t = "driver" THEN Processor0 ELSE 0]
  /\ chosenSeen = [t \in Threads |-> IF t = "driver" THEN chosen[t] ELSE 0]
  /\ pinRet = [t \in Threads |-> IF t = "driver" THEN Processor0 ELSE 0]
  /\ mdscrKDE = {}
  /\ dbg = [bvr0 |-> 0, bcr0 |-> 0]
  /\ verified = FALSE
  /\ syscall_complete \in {0, 1}
  /\ bp_address = KSYMBOL_WRITE_SYSCALL_ENTRYPOINT
  /\ callback = "nop"
  /\ gapOuter = 0
  /\ gapTrap = 0
  /\ kst = "user"
  /\ kpc = 0
  /\ kregs = [x1 |-> 0, x8 |-> 0]
  /\ mem = InitMem
  /\ req \in LongRequests
  /\ sargs = ZeroArgs
  /\ forged = [ZeroForged EXCEPT !.kde = KdeState]
  /\ written = <<>>
  /\ mon = InitMon
  /\ hist = InitHist

MarshalNext == Marshal \/ ClearFlag \/ IssueSyscall

MarshalSpec == MarshalInit /\ [][MarshalNext]_vars

(***************************************************************************)
(* handle_kernel_bp_hits on its own, against a debuggee that stays off the *)
(* core: it has trapped and was pre-empted in the spin loop.  The address  *)
(* it trapped at is the one in its debug registers, which is the requested *)
(* one or one left there before; the scheduled-off state at kstackptr      *)
(* carries a tag or none, and a saved sp or none.                          *)
(***************************************************************************)
MonitorInit ==
  /\ pc = [t \in Threads |-> IF t = "driver" THEN "kernel" ELSE "poll"]
  /\ oncpu = [t \in Threads |-> t = "monitor"]
  /\ chosen = [t \in Threads |-> Processor0]
  /\ bound = [t \in Threads |-> Processor0]
  /\ processor = [t \in Threads |-> Processor0]
  /\ chosenSeen = [t \in Threads |-> Processor0]
  /\ pinRet = [t \in Threads |-> Processor0]
  /\ mdscrKDE = {Processor0}
  /\ bp_address \in {KSYMBOL_WRITE_SYSCALL_ENTRYPOINT, UnusedKernelPc}
  /\ kpc \in {KSYMBOL_WRITE_SYSCALL_ENTRYPOINT, UnusedKernelPc}
  /\ dbg = [bvr0 |-> kpc, bcr0 |-> PatchedBcr(HostSetState(kpc, ArmRequest).bcr0)]
  /\ verified = (kpc = bp_address)
  /\ syscall_complete = 0
  /\ callback \in {"sys_write_breakpoint_handler", "nop"}
  /\ gapOuter \in 0..(ScanWords - CtxWords)
  /\ gapTrap \in 0..(TrapProbes + 1)
  /\ gapOuter + CtxWords + gapTrap >= ScanWords
  /\ kst = "spin"
  /\ kregs = [x1 |-> Uap, x8 |-> X8Ptr]
  /\ \E tag \in {0, TagWord}, sp \in {0, SpinSp} :
       mem = wk64(wk64(SaveOnSchedOff(TrappedMemAt(kpc)), KStackPtr + OffsetOf("sp"), sp),
                  KStackPtr + OffsetOf("tag"), tag)
  /\ req = TestKdbgRequest
  /\ sargs = MarshalArgs(req)
  /\ forged = [kde |-> KdeState, entry |-> EntryState(sargs),
               eret |-> EretState(EntryKern, ActContext, KStackPtr)]
  /\ written = <<>>
  /\ mon = InitMon
  /\ hist = InitHist

MonitorNext ==
  \/ Poll
  \/ ReadKsp
  \/ CopySched
  \/ CopyStack
  \/ Locate
  \/ CopyCtx
  \/ Callback
  \/ Writeback
  \/ PatchOuter
  \/ Switch

MonitorSpec == MonitorInit /\ [][MonitorNext]_vars

(***************************************************************************)
(* Properties.                                                             *)
(***************************************************************************)
MonAt(ls) == pc["monitor"] \in ls
DrvAt(ls) == pc["driver"] \in ls
AfterPinLabels == {"kde", "set_state", "get_state", "patch_bcr", "create", "marshal",
                   "clear_flag", "issue", "kernel", "set_flag", "join", "done",
                   "poll", "read_ksp", "copy_sched", "copy_stack", "locate",
                   "copy_ctx", "callback", "writeback", "patch", "switch"}
IssuedLabels == {"kernel", "set_flag", "join", "done"}
PolledLabels == {"read_ksp", "copy_sched", "copy_stack", "locate", "copy_ctx",
                 "callback", "writeback", "patch", "switch", "done"}
ArmedLabels == {"create", "marshal", "clear_flag", "issue", "kernel", "set_flag",
                "join", "done"}
PassLabels == {"locate", "copy_ctx", "callback", "writeback", "patch"}

\* the debuggee is in the spin loop and nothing will take it out: it is on the
\* core spinning, or it will be resumed into the loop
SpinsForever ==
  /\ kst = "spin"
  /\ oncpu["driver"] \/ rk64(mem, OuterAddr + OffsetOf("pc")) # KSYMBOL_SLEH_SYNC_EPILOG

\* C1: a debuggee that trapped at the breakpoint and spins is never left with
\* no monitor running: whenever it is stuck in the spin loop the monitor thread
\* has not returned.
C1_NeverLeftSpinning == ~(SpinsForever /\ MonAt({"done"}))

\* C2: the step that overwrites the outer pc (after the callback and the
\* write-back) leaves the trap region equal to the snapshot read from it with the
\* callback's changes, sys_write_breakpoint_handler changing pc by 4 and x8 only,
\* and leaves the outer snapshot's pc equal to the epilogue address.
C2_PatchPass ==
  [][(pc["monitor"] = "patch" /\ pc'["monitor"] = "switch") =>
       LET post == Decode(mem', mon.bp_hitting_state)
           pre == mon.pre_context
       IN /\ rk64(mem', mon.looper_saved_state + OffsetOf("pc")) = KSYMBOL_SLEH_SYNC_EPILOG
          /\ callback = "nop" => post = pre
          /\ callback = "sys_write_breakpoint_handler" =>
               /\ Get(post, "pc") = Get(pre, "pc") + 4
               /\ Get(post, "x8") = rk64(mem', Get(pre, "x8") + LdrOffset)
               /\ \A f \in {"tag", "x1", "sp", "cpsr"} : Get(post, f) = Get(pre, f)]_vars
C2_Witness ==
  /\ pc["monitor"] = "switch" /\ callback = "sys_write_breakpoint_handler"
  /\ mon.bp_found = 1 /\ Get(mon.pre_context, "pc") = bp_address
  /\ rk64(mem, mon.bp_hitting_state + OffsetOf("pc")) = bp_address + 4
  /\ rk64(mem, mon.bp_hitting_state + OffsetOf("x8")) = LoadedWord

\* C3: the monitor is in its terminal state only when the completion flag is set.
C3_DoneOnlyWithFlag == MonAt({"done"}) => syscall_complete = 1

\* C4 as claimed: after the completion flag is set the monitor starts no read of
\* the kernel-stack pointer and no stack scan.
C4_NoPollAfterFlag == hist.readsAfterFlag = 0 /\ hist.scansAfterFlag = 0
\* C4 as amended: after the completion flag is set the monitor starts at most
\* one read of the kernel-stack pointer and at most one stack scan (those of the
\* iteration that had passed the flag check), and starts no pass over a trap
\* snapshot: its next flag check returns.
C4_OnePollAfterFlag ==
  /\ hist.readsAfterFlag <= 1 /\ hist.scansAfterFlag <= 1
  /\ syscall_complete = 1 => ~MonAt(PassLabels)
C4_Witness == hist.readsAfterFlag = 1 /\ hist.scansAfterFlag = 1 /\ MonAt({"done"})

\* C5 as claimed: with both threads on cpu 0, the debuggee is not executing at
\* any point between the monitor's read of the kernel-stack pointer and its
\* overwrite of the outer snapshot's pc.
C5_DebuggeeOffCore ==
  (/\ MonAt({"copy_sched", "copy_stack"} \cup PassLabels)
   /\ chosen["driver"] = Processor0 /\ chosen["monitor"] = Processor0)
  => ~oncpu["driver"]
\* C5 as amended: the debuggee may execute in that interval (the monitor can be
\* pre-empted), but from the scan that selects the outer snapshot to the
\* overwrite of its pc the debuggee stays in the spin loop, and the trap region
\* the monitor read is unchanged until the monitor writes it back.
C5_DebuggeeStaysInSpin ==
  /\ MonAt(PassLabels) => kst = "spin"
  /\ MonAt({"callback", "writeback"}) =>
       Decode(mem, mon.bp_hitting_state) = mon.pre_context
C5_Witness ==
  /\ MonAt({"writeback"}) /\ oncpu["driver"] /\ kst = "spin"
  /\ chosen["driver"] = Processor0 /\ chosen["monitor"] = Processor0

\* C6 as claimed: when the driver has issued the privileged call, and when the
\* monitor has made its first poll, both threads are bound to cpu 0's processor.
C6_BothBoundAtStart ==
  (DrvAt(IssuedLabels) \/ MonAt(PolledLabels)) =>
    (bound["driver"] = Processor0 /\ bound["monitor"] = Processor0)
\* C6 as amended: the driver is bound to cpu 0's processor (pin_current_thread
\* has returned) before it issues the call, and both threads are bound to it
\* before the monitor's first poll; the monitor need not be bound yet when the
\* driver issues the call.
C6_BoundBeforeUse ==
  /\ DrvAt(IssuedLabels) => bound["driver"] = Processor0
  /\ MonAt(PolledLabels) => (bound["driver"] = Processor0 /\ bound["monitor"] = Processor0)
C6_Witness == MonAt({"read_ksp"}) /\ DrvAt({"kernel"}) /\ bound["monitor"] = Processor0

\* C7 as claimed: pin_current_thread returns the chosen-processor field it read
\* after the yield.
C7_ReturnsChosen ==
  \A t \in Threads : pc[t] \in AfterPinLabels => pinRet[t] = chosenSeen[t]
\* C7 as amended: pin_current_thread returns the processor of cpu 0 that it
\* wrote to the bound-processor field, whatever the chosen-processor field reads
\* after the yield.
C7_ReturnsBound ==
  \A t \in Threads : pc[t] \in AfterPinLabels =>
    (pinRet[t] = CpuProcessor(0) /\ pinRet[t] = bound[t])
C7_Witness ==
  \E t \in Threads : pc[t] \in AfterPinLabels /\ chosenSeen[t] = Processor1

ValidOuters ==
  {a \in StackAddrs : /\ a >= mon.sp /\ IsTag(mem[a])
                      /\ rk64(mem, a + OffsetOf("pc")) = KSYMBOL_EL1_HW_BP_INFINITE_LOOP}
TheOuter == CHOOSE a \in ValidOuters : TRUE
ValidTraps == {a \in StackAddrs : a >= TheOuter + CtxSize /\ IsTag(mem[a])}
TheTrap == CHOOSE a \in ValidTraps : TRUE
OneOuterOneTrap ==
  /\ Cardinality(ValidOuters) = 1
  /\ Cardinality(ValidTraps) = 1
\* the outer snapshot's pc word is inside the window and the trap snapshot's
\* tag word is inside the probes
InReach ==
  /\ (TheOuter - mon.sp) \div WordSize + FieldIdx("pc") < ScanWords
  /\ (TheTrap - (TheOuter + CtxSize)) \div WordSize < TrapProbes
ScansLocateBoth ==
  /\ ~MonAt({"done"})
  /\ MonAt({"locate", "copy_ctx"}) =>
       (mon.looper_saved_state = TheOuter /\ IsTag(mem[mon.looper_saved_state]))
  /\ MonAt({"copy_ctx"}) =>
       /\ mon.bp_found = 1 /\ mon.bp_hitting_state = TheTrap
       /\ IsTag(rk64(mem, mon.bp_hitting_state))

C10_RoundTrip ==
  [][(pc["monitor"] = "writeback" /\ pc'["monitor"] = "patch") =>
       /\ Decode(mem', mon.bp_hitting_state) = mon.bp_context
       /\ callback = "nop" => mem' = mem]_vars
C10_Witness ==
  /\ MonAt({"patch"}) /\ callback = "nop" /\ mon.bp_found = 1
  /\ Get(mon.bp_context, "tag") = TagWord
  /\ Decode(mem, mon.bp_hitting_state) = mon.bp_context

C12_WritesCallbackData ==
  (/\ written # <<>> /\ bp_address = KSYMBOL_WRITE_SYSCALL_ENTRYPOINT /\ verified
   /\ callback = "sys_write_breakpoint_handler")
  => written = <<ReplacerStr, ReplacerLen>>

\* C13: the trap scan always hands over to the copy of the trap snapshot, and a
\* pass over a located snapshot whose pc is not the expected breakpoint address
\* ends like any other: the trap region holds the callback's result and the
\* outer snapshot's pc is the epilogue address when the monitor yields.
C13_MismatchProceeds ==
  [][/\ (pc["monitor"] = "locate" /\ pc'["monitor"] # "locate") =>
          pc'["monitor"] = "copy_ctx"
     /\ (/\ pc["monitor"] = "patch" /\ pc'["monitor"] = "switch"
         /\ mon.bp_found = 1 /\ Get(mon.pre_context, "pc") # bp_address) =>
          /\ rk64(mem', mon.looper_saved_state + OffsetOf("pc")) = KSYMBOL_SLEH_SYNC_EPILOG
          /\ Decode(mem', mon.bp_hitting_state)
               = CallbackCtx(callback, mon.pre_context, mem)]_vars
C13_Witness ==
  /\ MonAt({"switch"}) /\ mon.bp_found = 1
  /\ Get(mon.pre_context, "pc") # bp_address
  /\ Get(mon.pre_context, "tag") = TagWord
  /\ rk64(mem, OuterAddr + OffsetOf("pc")) = KSYMBOL_SLEH_SYNC_EPILOG

\* C14: when the address read back differs from the requested one the driver
\* goes on: past the read-back the match-any-mode bits are patched in, then the
\* monitor thread exists, then the call has been issued, the completion flag is
\* set only after the call and the driver ends only after the monitor has.
C14_VerifyFailureContinues ==
  ~verified =>
    /\ DrvAt(ArmedLabels) => HasBits(dbg.bcr0, ARM_DBG_CR_MODE_CONTROL_ANY)
    /\ DrvAt(ArmedLabels \ {"create"}) => ~MonAt({"none"})
    /\ DrvAt(IssuedLabels) => forged.eret = EretState(EntryKern, ActContext, KStackPtr)
    /\ DrvAt({"join", "done"}) => (syscall_complete = 1 /\ written # <<>>)
    /\ DrvAt({"done"}) => MonAt({"done"})
C14_Witness ==
  /\ ~verified /\ DrvAt({"done"}) /\ MonAt({"done"}) /\ syscall_complete = 1
  /\ dbg.bvr0 # bp_address /\ HasBits(dbg.bcr0, ARM_DBG_CR_MODE_CONTROL_ANY)

\* C15: while the driver has issued the call and the call has not returned the
\* completion flag is 0, and the flag is 1 only once the call has returned to
\* the driver.
C15_FlagOnlyAfterReturn ==
  /\ DrvAt({"kernel"}) => syscall_complete = 0
  /\ syscall_complete # 0 => (DrvAt({"join", "done"}) /\ kst = "user" /\ written # <<>>)
C15_Witness ==
  /\ DrvAt({"kernel"}) /\ kst = "spin" /\ MonAt({"patch"}) /\ syscall_complete = 0

\* a status word with A, I and F masked, D unmasked and the mode EL1 on SP0
StatusWordOk(w) ==
  /\ Bit(w, 8) = 1 /\ Bit(w, 7) = 1 /\ Bit(w, 6) = 1
  /\ Bit(w, 9) = 0
  /\ w % 32 = SPSR_EL1_SP0

\* C16: the status word of the state set_MDSCR_EL1_KDE forges, and of the state
\* do_syscall_with_pstate_d_unmasked forges, has bits 8, 7 and 6 set, bit 9
\* clear and the mode field 0x4.
C16_StatusWords ==
  /\ ~DrvAt({"kde"}) => StatusWordOk(forged.kde.cpsr)
  /\ DrvAt({"kernel"}) => StatusWordOk(forged.eret.cpsr)
C16_Witness ==
  /\ DrvAt({"kernel"})
  /\ forged.eret.cpsr = SPSR_A + SPSR_I + SPSR_F + SPSR_EL1_SP0
  /\ forged.kde.cpsr = SPSR_A + SPSR_I + SPSR_F + SPSR_EL1_SP0
  /\ forged.eret.pc = KSYMBOL_VALID_LINK_REGISTER

\* C17: for every request the entry snapshot has x16 = number and x[i] = the
\* i-th argument passed, 0 from index n_args on; the dispatch snapshot has x0 =
\* the kernel copy of the entry snapshot, x1 = 0x15 << 26, x21 = the thread's
\* saved context, sp = the thread's kernel stack top and pc = the fixed
\* mid-handler address.
C17_Snapshots ==
  DrvAt({"kernel"}) =>
    /\ forged.entry.x16 = req.number
    /\ \A i \in 0..7 :
         forged.entry.x[i] = IF i < req.n_args THEN req.args[i + 1] ELSE 0
    /\ forged.eret.x0 = EntryKern
    /\ forged.eret.x1 = 1409286144
    /\ forged.eret.x21 = ActContext
    /\ forged.eret.sp = KStackPtr
    /\ forged.eret.pc = KSYMBOL_VALID_LINK_REGISTER
C17_Witness ==
  /\ DrvAt({"kernel"}) /\ req.number = OtherSyscall /\ req.n_args = 2
  /\ forged.entry.x16 = OtherSyscall
  /\ forged.entry.x[1] = HelloStr /\ forged.entry.x[2] = 0

\* the outer snapshot's pc word, and the step that makes it the epilogue address
OuterPc(m) == rk64(m, OuterAddr + OffsetOf("pc"))
OuterPcPatched == OuterPc(mem) # KSYMBOL_SLEH_SYNC_EPILOG /\ OuterPc(mem') = KSYMBOL_SLEH_SYNC_EPILOG

\* C18: the outer snapshot's pc becomes the epilogue address only in the step
\* after the write-back, when the trap region already holds the callback's
\* result; the monitor reaches its yield only from that step; and while the
\* debuggee is still in the spin loop with the outer pc patched, the located
\* trap snapshot's memory holds the callback's result.
C18_WritebackBeforePatch ==
  /\ [][/\ OuterPcPatched =>
             /\ pc["monitor"] = "patch" /\ pc'["monitor"] = "switch" /\ oncpu["monitor"]
             /\ Decode(mem, mon.bp_hitting_state) = mon.bp_context
             /\ mon.bp_context = CallbackCtx(callback, mon.pre_context, mem)
        /\ (pc'["monitor"] = "switch" /\ pc["monitor"] # "switch") =>
             (pc["monitor"] = "patch" /\ OuterPc(mem') = KSYMBOL_SLEH_SYNC_EPILOG)
        /\ (pc'["monitor"] = "patch" /\ pc["monitor"] # "patch") =>
             (pc["monitor"] = "writeback"
              /\ Decode(mem', mon.bp_hitting_state) = mon.bp_context)]_vars
  /\ [](( /\ kst = "spin" /\ OuterPc(mem) = KSYMBOL_SLEH_SYNC_EPILOG /\ mon.bp_found = 1)
         => Decode(mem, mon.bp_hitting_state) = mon.bp_context)
C18_Witness ==
  /\ MonAt({"switch"}) /\ kst = "spin" /\ ~oncpu["driver"]
  /\ callback = "sys_write_breakpoint_handler" /\ mon.bp_found = 1
  /\ OuterPc(mem) = KSYMBOL_SLEH_SYNC_EPILOG
  /\ Get(Decode(mem, mon.bp_hitting_state), "pc") = bp_address + 4

\* the scheduled-off state at the debuggee's kernel-stack pointer, and the
\* monitor's step that has just copied it
SchedState == CopyIn(mem, mon.kstackptr, CtxWords)
CopySchedStep == pc["monitor"] = "copy_sched" /\ pc'["monitor"] # "copy_sched"

\* C19 as stated: a scheduled-off state whose tag word does not match, or whose
\* saved sp is null, sends the monitor back to the poll without a stack scan.
C19_DecodeOrNullRetries ==
  [][(CopySchedStep /\ (~IsTag(Get(SchedState, "tag")) \/ Get(SchedState, "sp") = 0))
       => pc'["monitor"] = "poll"]_vars

\* C19 amended: only the saved sp decides.  A null sp sends the monitor straight
\* back to the completion-flag check with no scan and no write; a non-null sp
\* starts the stack scan whatever the tag word is; and the kernel-stack pointer
\* is read again only after the flag was found clear.
C19_NullSpRetries ==
  [][/\ (CopySchedStep /\ Get(SchedState, "sp") = 0) =>
          /\ pc'["monitor"] = "poll"
          /\ mem' = mem /\ mon'.found_it = 0 /\ mon'.looper_saved_state = 0
          /\ hist' = hist
     /\ (CopySchedStep /\ Get(SchedState, "sp") # 0) => pc'["monitor"] = "copy_stack"
     /\ (pc'["monitor"] = "read_ksp" /\ pc["monitor"] # "read_ksp") =>
          (pc["monitor"] = "poll" /\ syscall_complete = 0)]_vars
C19_Witness ==
  /\ MonAt({"copy_stack"})
  /\ ~IsTag(rk64(mem, KStackPtr + OffsetOf("tag")))
  /\ mon.sp = SpinSp

DriverOrder ==
  <<"pin_bind", "pin_yield", "pin_confirm", "kde", "set_state", "get_state",
    "patch_bcr", "create", "marshal", "clear_flag", "issue", "kernel", "set_flag",
    "join", "done">>

\* C21: the driver goes through pin, set_MDSCR_EL1_KDE, thread_set_state, the
\* patch of the mode field and pthread_create in this order before it issues
\* the call, so that when the call is issued the thread is bound, the KDE
\* state was handed to the gadget, the mode field is patched and the monitor
\* exists; the flag is set and the monitor joined only after the call returned.
C21_OrderedSetup ==
  /\ [][pc'["driver"] # pc["driver"] =>
          \E i \in 1..(Len(DriverOrder) - 1) :
            pc["driver"] = DriverOrder[i] /\ pc'["driver"] = DriverOrder[i + 1]]_vars
  /\ [](DrvAt({"kernel", "set_flag", "join", "done"}) =>
          /\ bound["driver"] = CpuProcessor(0)
          /\ forged.kde = KdeState
          /\ HasBits(dbg.bcr0, ARM_DBG_CR_MODE_CONTROL_ANY)
          /\ pc["monitor"] # "none")
  /\ []((syscall_complete = CompletedFlag \/ DrvAt({"join", "done"})) =>
          (DrvAt({"join", "done"}) /\ kst = "user" /\ written # <<>>))
C21_Witness ==
  /\ DrvAt({"done"}) /\ pc["monitor"] = "done" /\ verified
  /\ written = <<ReplacerStr, ReplacerLen>>

\* C22: the monitor finds the completion flag set only when the driver of its
\* own session has set it, that is after the session's call has returned.
C22_NoStaleFlag ==
  [][(pc["monitor"] = "poll" /\ pc'["monitor"] = "done") => DrvAt({"join", "done"})]_vars

\* C23: the monitor is at the callback or at the write-back only with a trap
\* snapshot located, one whose tag word is the tag constant.
C23_DispatchOnlyTagged ==
  MonAt({"callback", "writeback"}) =>
    (mon.bp_found = 1 /\ IsTag(Get(mon.pre_context, "tag")))

\* the window the monitor is about to scan, the indexes whose tag word matches,
\* and those of them the loop gets to (no lower index stops it)
Window == CopyIn(mem, mon.sp, ScanWords)
PcInWindow(i) == i + FieldIdx("pc") < ScanWords
StopsAt(i) ==
  /\ IsTag(Window[i + 1]) /\ PcInWindow(i)
  /\ Window[i + FieldIdx("pc") + 1] = KSYMBOL_EL1_HW_BP_INFINITE_LOOP
Inspected ==
  {i \in 0..(ScanWords - 1) : IsTag(Window[i + 1]) /\ \A j \in 0..(i - 1) : ~StopsAt(j)}

\* C24: every tag-matching index the outer scan gets to has its pc word inside
\* the window, and the outer location selected is the lowest index whose tag
\* matches and whose pc is the spin-loop address.
C24_ScanStaysInWindow ==
  /\ MonAt({"copy_stack"}) => \A i \in Inspected : PcInWindow(i)
  /\ MonAt({"locate"}) =>
       \E i \in 0..(ScanWords - 1) :
         /\ mon.looper_saved_state = mon.sp + i * WordSize
         /\ StopsAt(i) /\ \A j \in 0..(i - 1) : ~StopsAt(j)

\* C25: for every n_args, the marshalling fills only the slots arg[0..7]: the
\* operation number is the one passed and nothing is stored outside the request.
C25_MarshalStaysInRequest ==
  DrvAt({"clear_flag", "issue", "kernel"}) =>
    /\ sargs.number = req.number
    /\ \A i \in 0..(NArgSlots - 1) :
         sargs.arg[i] = IF i < req.n_args THEN req.args[i + 1] ELSE 0
    /\ sargs.beyond = <<>>

\* C26: a breakpoint hit is handed to the callback at most once: the located
\* trap snapshot the callback receives while the debuggee sits in the spin loop
\* is the one the trap left, with the pc the debuggee trapped at, never one a
\* previous pass has already handed to the callback and written back.
C26_DispatchedOnce ==
  ( /\ MonAt({"callback"}) /\ kst = "spin" /\ mon.bp_found = 1
    /\ mon.looper_saved_state = OuterAddr /\ mon.bp_hitting_state = TrapAddr )
  => Get(mon.pre_context, "pc") = kpc

\* the words a step changes, the monitor's own steps, and the words of the
\* region the write-back covers
Changed == {a \in DOMAIN mem : mem'[a] # mem[a]}
MonitorMoves == pc'["monitor"] # pc["monitor"] /\ pc["monitor"] # "none"
CtxRegion(addr) == {addr + k * WordSize : k \in 0..(CtxWords - 1)}
UapWords(ctx) == {Get(ctx, "x1") + 8, Get(ctx, "x1") + 16}

\* C27 as stated: the monitor's steps change only the region of a located,
\* tag-valid trap snapshot and the pc word of the selected outer snapshot.
C27_WritesOnlySnapshots ==
  [][MonitorMoves =>
       \A a \in Changed :
         \/ /\ pc["monitor"] = "writeback" /\ a \in CtxRegion(mon.bp_hitting_state)
            /\ mon.bp_found = 1 /\ IsTag(Get(mon.pre_context, "tag"))
         \/ /\ pc["monitor"] = "patch"
            /\ a = mon.looper_saved_state + OffsetOf("pc")]_vars

\* C27 amended: the monitor's steps change only the sizeof(arm_context_t)
\* region at the address where the trap scan stopped (a tag word found there
\* or not), the pc word of the selected outer snapshot, and the words the
\* callback itself stores through the trapped x1; the kernel-stack pointer's
\* state and the other words of the outer snapshot are left as they were, and
\* an iteration that selects no outer snapshot changes nothing.
C27_WritesRegionPcAndCallback ==
  [][MonitorMoves =>
       /\ \A a \in Changed :
            \/ pc["monitor"] = "writeback" /\ a \in CtxRegion(mon.bp_hitting_state)
            \/ pc["monitor"] = "patch" /\ a = mon.looper_saved_state + OffsetOf("pc")
            \/ /\ pc["monitor"] = "callback"
               /\ callback = "sys_write_breakpoint_handler"
               /\ a \in UapWords(mon.pre_context)
       /\ pc["monitor"] \in {"poll", "read_ksp", "copy_sched", "copy_stack", "locate",
                             "copy_ctx", "switch"} => mem' = mem
       /\ pc["monitor"] = "patch" =>
            \A a \in CtxRegion(mon.looper_saved_state) \cup CtxRegion(KStackPtr) :
              a # mon.looper_saved_state + OffsetOf("pc") => mem'[a] = mem[a]]_vars
C27_Witness ==
  /\ MonAt({"switch"}) /\ kst = "spin" /\ mon.bp_found = 1
  /\ callback = "sys_write_breakpoint_handler"
  /\ rk64(mem, Uap + 8) = ReplacerStr /\ rk64(mem, Uap + 16) = ReplacerLen
  /\ OuterPc(mem) = KSYMBOL_SLEH_SYNC_EPILOG
  /\ rk64(mem, OuterAddr) = TagWord
====
